---- MODULE Spec2Model ----
(***************************************************************************)
(* Model of src/monitoring/performance_monitor.py: the PerformanceMonitor  *)
(* sampling loop (start_monitoring / collect_metrics), the flush           *)
(* (save_data), the SIGINT/SIGTERM handler (signal_handler) and the        *)
(* queries (get_latest_data, get_dataframe).  Spec is the monitor as a     *)
(* whole; SpecCpu is one get_container_stats call over a range of counter  *)
(* readings.                                                               *)
(*                                                                         *)
(* One Python thread runs everything.  The signal handler interrupts the   *)
(* main control flow between two of its steps, runs to completion and      *)
(* ends in sys.exit(0), which raises SystemExit at the interrupted point.  *)
(*                                                                         *)
(* Numbers with two decimals (round(x, 2)) are kept in hundredths.         *)
(* Time is in whole seconds.                                               *)
(***************************************************************************)
EXTENDS Integers, Sequences, FiniteSets, TLC

VARIABLES
    interval,        \* self.interval
    running,         \* self.running
    data,            \* self.data, the series
    files,           \* the directory /app/data: path -> written content
    duration,        \* start_monitoring's argument
    start_time,      \* start_monitoring's local start_time
    pc,              \* position of the main control flow
    exc,             \* exception propagating out of the try block
    timestamp,       \* collect_metrics' local timestamp
    metrics,         \* collect_metrics' local metrics
    idx,             \* position of the for loop over self.containers
    container_stats, \* collect_metrics' local container_stats
    hpc,             \* position of signal_handler, "none" when not running
    ret,             \* what the last save_data call returned
    now,             \* the wall clock
    block,           \* how long psutil.cpu_percent(interval=1) blocks
    response,        \* what the last requests.get gave
    events,          \* environment deviations so far
    known,           \* the containers the docker daemon knows
    docker_stats,    \* what container.stats(stream=False) gave last in this tick
    sig_pc,          \* where the main control flow was when the signal came
    saves,           \* number of save_data invocations
    ticks,           \* number of collect_metrics invocations
    calls,           \* the calls collect_metrics made so far in this tick
    oklog,           \* per appended snapshot: targets whose fetch gave stats
    last_save,       \* what the last save_data call saw and produced
    answer           \* what the caller's last get_latest_data / get_dataframe call gave

\* the monitor object and the files it writes
objVars == <<interval, running, data, files>>
\* the locals of start_monitoring and collect_metrics
locVars == <<duration, start_time, timestamp, metrics, idx, container_stats>>
\* the environment
envVars == <<now, block, known, events, docker_stats>>
\* what is recorded about the run
logVars == <<response, sig_pc, saves, ticks, calls, oklog, ret, last_save>>

vars == <<objVars, locVars, envVars, logVars, pc, exc, hpc, answer>>

(***************************************************************************)
(* Bounds of the model                                                     *)
(***************************************************************************)
MaxTicks == 4
MaxEnvEvents == 1

\* Python's None.  An int that may be None is kept as IntVal(n), so that it
\* can be compared with None.
None == <<>>
IntVal(n) == [int |-> n]

(***************************************************************************)
(* Configuration and environment                                           *)
(***************************************************************************)
\* argparse --interval, default 10
DefaultInterval == 10

\* argparse --duration: default None, otherwise an int
Durations == {None, IntVal(0), IntVal(1), IntVal(30)}

\* self.containers, in insertion order, and the health URL of each
containers == <<"node-nextjs-app", "deno-nextjs-app", "bun-nextjs-app">>

container_url ==
    [c \in {"node-nextjs-app", "deno-nextjs-app", "bun-nextjs-app"} |->
        CASE c = "node-nextjs-app" -> "http://localhost:3001"
          [] c = "deno-nextjs-app" -> "http://localhost:3002"
          [] c = "bun-nextjs-app"  -> "http://localhost:3003"]

\* psutil.cpu_percent(interval=1) blocks for its window; a stubbed source
\* returns at once
CpuWindow == 1
BlockTimes == {0, CpuWindow}

\* container.stats(stream=False) of a container that is found
NominalStats ==
    [cpu_total |-> 300, precpu_total |-> 100,
     system_cpu |-> 2000, presystem_cpu |-> 1000,
     percpu_len |-> 2,
     memory_usage |-> 104858, memory_limit |-> 209716,
     status |-> "running"]

\* readings of the cumulative counters of container.stats(): cpu_usage.
\* total_usage, system_cpu_usage and the number of entries of percpu_usage.
\* 32 makes quotients that lie half way between two hundredths.
CpuCounters == {0, 1, 3, 8}
SystemCounters == {0, 3, 32, 35}
CoreCounts == {1, 2, 4}
CounterStats ==
    {[cpu_total |-> c1, precpu_total |-> c0,
      system_cpu |-> s1, presystem_cpu |-> s0,
      percpu_len |-> n,
      memory_usage |-> 104858, memory_limit |-> 209716,
      status |-> "running"] :
        c1 \in CpuCounters, c0 \in CpuCounters,
        s1 \in SystemCounters, s0 \in SystemCounters, n \in CoreCounts}

\* what self.client.containers.get(name) / container.stats() raise:
\* docker.errors.NotFound for a container the daemon does not know,
\* any other exception when the daemon cannot answer
FetchFailures == {"NotFound", "Error"}

\* the sets of containers the daemon may know during a run
PresentSets == {{"node-nextjs-app", "deno-nextjs-app", "bun-nextjs-app"},
                {"node-nextjs-app"},
                {}}

\* outcomes of requests.get(url, timeout=5): a status code, or an exception
\* (connection refused, timeout)
HttpOk == [status |-> 200]
BadResponses == {[status |-> 204], [status |-> 500], [raised |-> "RequestException"]}

\* readings of psutil
NominalHost == [cpu |-> 125, mem |-> 401, available_mib |-> 8448]
SpikeHost   == [cpu |-> 973, mem |-> 885, available_mib |-> 1024]

(***************************************************************************)
(* Pure helpers                                                            *)
(***************************************************************************)
\* round(n / d, 0) for d > 0: Python's round() gives the nearest integer and,
\* half way between two, the even one
RoundHalfEven(n, d) ==
    LET q == n \div d
        r == n - q * d
    IN  IF 2 * r < d THEN q
        ELSE IF 2 * r > d THEN q + 1
        ELSE IF q % 2 = 0 THEN q ELSE q + 1

\* round(num / den, 0) for den # 0
RoundDiv(num, den) ==
    IF den < 0 THEN RoundHalfEven(0 - num, 0 - den) ELSE RoundHalfEven(num, den)

\* datetime.isoformat(): the clock reading written out as a string of
\* decimal digits
isoformat(t) == <<t \div 100, (t \div 10) % 10, t % 10>>

\* pd.to_datetime(str): the string parsed back to a time
to_datetime(s) == s[1] * 100 + s[2] * 10 + s[3]

\* datetime.now().strftime('%Y%m%d_%H%M%S'), second resolution
strftime(t) == isoformat(t)

json_path_of(filename) == <<"/app/data", filename, "json">>
csv_path_of(filename)  == <<"/app/data", filename, "csv">>

\* cpu_percent guarded against a zero system_delta only: a negative
\* system_delta is divided by
cpu_percent_of_nonzero(stats) ==
    LET cpu_delta    == stats.cpu_total - stats.precpu_total
        system_delta == stats.system_cpu - stats.presystem_cpu
    IN  IF system_delta # 0
        THEN RoundDiv(cpu_delta * stats.percpu_len * 10000, system_delta)
        ELSE 0

\* cpu_percent without the factor len(percpu_usage) of line 73
cpu_percent_of_one_core(stats) ==
    LET cpu_delta    == stats.cpu_total - stats.precpu_total
        system_delta == stats.system_cpu - stats.presystem_cpu
    IN  IF system_delta > 0
        THEN RoundDiv(cpu_delta * 10000, system_delta)
        ELSE 0

\* lines 65-73 and 82: cpu_percent, in hundredths of a percent
cpu_percent_of(stats) ==
    LET cpu_delta    == stats.cpu_total - stats.precpu_total
        system_delta == stats.system_cpu - stats.presystem_cpu
    IN  IF system_delta > 0
        THEN RoundDiv(cpu_delta * stats.percpu_len * 10000, system_delta)
        ELSE 0

\* Raised(x): x is an exception on its way up, not a value
Raised(x) == "raised" \in DOMAIN x

\* get_container_stats with only the NotFound clause of line 88: any other
\* exception goes up to the caller
get_container_stats_uncaught(container_name, raw, t) ==
    IF Raised(raw)
    THEN IF raw.raised = "NotFound" THEN None ELSE raw
    ELSE [container_name   |-> container_name,
          cpu_percent      |-> cpu_percent_of(raw),
          memory_usage_mb  |-> RoundDiv(raw.memory_usage * 100, 1024 * 1024),
          memory_percent   |-> RoundDiv(raw.memory_usage * 10000, raw.memory_limit),
          status           |-> raw.status,
          timestamp        |-> isoformat(t)]

\* lines 60-93: what get_container_stats gives for a raw outcome of the
\* docker client: None on NotFound (line 88) and on any other Exception
\* (line 91, which also catches the ZeroDivisionError of line 78)
get_container_stats(container_name, raw, t) ==
    IF Raised(raw)
    THEN None
    ELSE IF raw.memory_limit = 0
    THEN None
    ELSE [container_name   |-> container_name,
          cpu_percent      |-> cpu_percent_of(raw),
          memory_usage_mb  |-> RoundDiv(raw.memory_usage * 100, 1024 * 1024),
          memory_percent   |-> RoundDiv(raw.memory_usage * 10000, raw.memory_limit),
          status           |-> raw.status,
          timestamp        |-> isoformat(t)]

\* check_container_health testing response.ok (any status below 400)
\* where line 108 tests for 200
check_container_health_ok(resp) ==
    IF Raised(resp) THEN FALSE ELSE resp.status < 400

\* lines 106-110: check_container_health for a response of requests.get
check_container_health(resp) ==
    IF Raised(resp) THEN FALSE ELSE resp.status = 200

\* lines 119-124: get_system_stats for a reading of psutil
get_system_stats(host, t) ==
    [system_cpu_percent         |-> host.cpu,
     system_memory_percent      |-> host.mem,
     system_memory_available_gb |-> RoundDiv(host.available_mib * 100, 1024),
     timestamp                  |-> isoformat(t)]

\* truthiness of a value in "if x:" for the values that occur here
Truthy(x) == x # None /\ x # IntVal(0)

\* lines 182-193 (and 253-264): the rows of one entry, one per container
\* of entry['containers'] in insertion order, each a copy of base_row
RowsOfEntry(entry, base_row) ==
    LET present == SelectSeq(containers,
                       LAMBDA c : /\ c \in DOMAIN entry.containers
                                  /\ Truthy(entry.containers[c]))
        RowOf(c) ==
            LET stats == entry.containers[c]
            IN  [timestamp                  |-> base_row.timestamp,
                 system_cpu_percent         |-> base_row.system_cpu_percent,
                 system_memory_percent      |-> base_row.system_memory_percent,
                 system_memory_available_gb |-> base_row.system_memory_available_gb,
                 container_name             |-> c,
                 container_cpu_percent      |-> stats.cpu_percent,
                 container_memory_usage_mb  |-> stats.memory_usage_mb,
                 container_memory_percent   |-> stats.memory_percent,
                 container_healthy          |-> stats.healthy,
                 container_status           |-> stats.status]
    IN  [i \in 1..Len(present) |-> RowOf(present[i])]

\* base_row taking the host record's own timestamp where line 176 takes the
\* snapshot's
SaveBaseRow_host_ts(entry) ==
    [timestamp                  |-> entry.system.timestamp,
     system_cpu_percent         |-> entry.system.system_cpu_percent,
     system_memory_percent      |-> entry.system.system_memory_percent,
     system_memory_available_gb |-> entry.system.system_memory_available_gb]

\* lines 175-180: base_row of save_data
SaveBaseRow(entry) ==
    [timestamp                  |-> entry.timestamp,
     system_cpu_percent         |-> entry.system.system_cpu_percent,
     system_memory_percent      |-> entry.system.system_memory_percent,
     system_memory_available_gb |-> entry.system.system_memory_available_gb]

\* lines 246-251: base_row of get_dataframe
FrameBaseRow(entry) ==
    [timestamp                  |-> to_datetime(entry.timestamp),
     system_cpu_percent         |-> entry.system.system_cpu_percent,
     system_memory_percent      |-> entry.system.system_memory_percent,
     system_memory_available_gb |-> entry.system.system_memory_available_gb]

\* lines 173-193: flattened_data of save_data
RECURSIVE flattened_data(_)
flattened_data(series) ==
    IF series = <<>> THEN <<>>
    ELSE RowsOfEntry(Head(series), SaveBaseRow(Head(series)))
            \o flattened_data(Tail(series))

RECURSIVE FrameRows(_)
FrameRows(series) ==
    IF series = <<>> THEN <<>>
    ELSE RowsOfEntry(Head(series), FrameBaseRow(Head(series)))
            \o FrameRows(Tail(series))

\* lines 239-266: get_dataframe
get_dataframe(series) ==
    IF series = <<>> THEN <<>> ELSE FrameRows(series)

\* lines 235-237: get_latest_data
get_latest_data(series) ==
    IF series # <<>> THEN series[Len(series)] ELSE None

\* save_data returning both paths without the test of line 195
SaveRet_both_paths(series, t) ==
    IF series = <<>>
    THEN None
    ELSE <<csv_path_of(<<"performance_data", strftime(t)>>),
           json_path_of(<<"performance_data", strftime(t)>>)>>

\* lines 160-203: what save_data returns and the files it leaves
SaveRet(series, t) ==
    IF series = <<>>
    THEN None
    ELSE IF flattened_data(series) # <<>>
    THEN <<csv_path_of(<<"performance_data", strftime(t)>>),
           json_path_of(<<"performance_data", strftime(t)>>)>>
    ELSE <<None, json_path_of(<<"performance_data", strftime(t)>>)>>

\* save_data without the early return of lines 160-162
SaveFiles_unguarded(fs, series, t) ==
    LET filename == <<"performance_data", strftime(t)>>
        withJson == (json_path_of(filename) :> series) @@ fs
    IN  IF flattened_data(series) # <<>>
        THEN (csv_path_of(filename) :> flattened_data(series)) @@ withJson
        ELSE withJson

\* save_data writing the tabular file without the test of line 195
SaveFiles_always_csv(fs, series, t) ==
    IF series = <<>>
    THEN fs
    ELSE LET filename == <<"performance_data", strftime(t)>>
         IN  (csv_path_of(filename) :> flattened_data(series))
                @@ (json_path_of(filename) :> series) @@ fs

\* save_data dumping the latest snapshot only (json.dump(self.data[-1:]))
\* where line 169 dumps self.data
SaveFiles_latest_only(fs, series, t) ==
    IF series = <<>>
    THEN fs
    ELSE LET filename == <<"performance_data", strftime(t)>>
             withJson == (json_path_of(filename) :> <<series[Len(series)]>>) @@ fs
         IN  IF flattened_data(series) # <<>>
             THEN (csv_path_of(filename) :> flattened_data(series)) @@ withJson
             ELSE withJson

SaveFiles(fs, series, t) ==
    IF series = <<>>
    THEN fs
    ELSE LET filename == <<"performance_data", strftime(t)>>
             withJson == (json_path_of(filename) :> series) @@ fs
         IN  IF flattened_data(series) # <<>>
             THEN (csv_path_of(filename) :> flattened_data(series)) @@ withJson
             ELSE withJson

\* the effect of one save_data() call on the state
save_data ==
    /\ files' = SaveFiles(files, data, now)
    /\ ret' = SaveRet(data, now)
    /\ saves' = saves + 1
    /\ last_save' = [series |-> data, rows |-> flattened_data(data),
                     filename |-> <<"performance_data", strftime(now)>>]

\* lines 137-139 with the insertion of line 139 outside the if: a container
\* without stats gets a None placeholder
record_container_placeholder(m, container_name, stats, resp) ==
    IF Truthy(stats)
    THEN [m EXCEPT !.containers =
            @ @@ (container_name :>
                    [container_name  |-> stats.container_name,
                     cpu_percent     |-> stats.cpu_percent,
                     memory_usage_mb |-> stats.memory_usage_mb,
                     memory_percent  |-> stats.memory_percent,
                     status          |-> stats.status,
                     timestamp       |-> stats.timestamp,
                     healthy         |-> check_container_health(resp)])]
    ELSE [m EXCEPT !.containers = @ @@ (container_name :> None)]

\* lines 137-139: the snapshot after one container was handled: the record
\* with its healthy field is inserted only when container_stats is truthy
record_container(m, container_name, stats, resp) ==
    IF Truthy(stats)
    THEN [m EXCEPT !.containers =
            @ @@ (container_name :>
                    [container_name  |-> stats.container_name,
                     cpu_percent     |-> stats.cpu_percent,
                     memory_usage_mb |-> stats.memory_usage_mb,
                     memory_percent  |-> stats.memory_percent,
                     status          |-> stats.status,
                     timestamp       |-> stats.timestamp,
                     healthy         |-> check_container_health(resp)])]
    ELSE m

\* the test of line 223 with > for >=
duration_completed_strict(d, t0, t) ==
    Truthy(d) /\ (t - t0) > d.int

\* line 223: the test that ends the loop
duration_completed(d, t0, t) ==
    Truthy(d) /\ (t - t0) >= d.int

\* the targets whose fetch gave stats in this tick
OkSet == {containers[i] : i \in {j \in 1..Len(containers) :
                \E k \in 1..Len(calls) : calls[k] = <<"fetch", containers[j], "ok">>}}


(***************************************************************************)
(* Initial state: a constructed PerformanceMonitor, nothing started        *)
(***************************************************************************)
Init ==
    /\ interval = DefaultInterval
    /\ running = FALSE
    /\ data = <<>>
    /\ files = <<>>
    /\ duration = None
    /\ start_time = 0
    /\ pc = "idle"
    /\ exc = "none"
    /\ timestamp = 0
    /\ metrics = None
    /\ idx = 0
    /\ container_stats = None
    /\ hpc = "none"
    /\ ret = None
    /\ now = 0
    /\ block \in BlockTimes
    /\ known \in PresentSets
    /\ docker_stats = None
    /\ response = None
    /\ events = 0
    /\ sig_pc = "none"
    /\ saves = 0
    /\ ticks = 0
    /\ calls = <<>>
    /\ oklog = <<>>
    /\ last_save = None
    /\ answer = None

\* positions inside the try block of start_monitoring
TryPcs == {"loop", "cm_ts", "cm_sys", "cm_fetch", "cm_probe", "cm_append",
           "cm_log", "dur_check", "sleep"}

\* positions inside collect_metrics up to the append of line 141
TickPcs == {"cm_ts", "cm_sys", "cm_fetch", "cm_probe", "cm_append"}

\* the main control flow runs only while no handler is running
Main == hpc = "none"

(***************************************************************************)
(* start_monitoring                                                        *)
(***************************************************************************)
\* lines 212-217
Start ==
    /\ Main /\ pc = "idle"
    /\ \E d \in Durations : duration' = d
    /\ running' = TRUE
    /\ start_time' = now
    /\ pc' = "started"
    /\ answer' = None
    /\ UNCHANGED <<interval, data, files, timestamp, metrics, idx,
                   container_stats, envVars, logVars, exc, hpc>>

\* line 219
EnterTry ==
    /\ Main /\ pc = "started"
    /\ pc' = "loop"
    /\ UNCHANGED <<answer, objVars, locVars, envVars, logVars, exc, hpc>>

\* lines 220-221: the while test, and the call of collect_metrics
LoopTest ==
    /\ Main /\ pc = "loop"
    /\ ticks < MaxTicks
    /\ IF running
       THEN /\ pc' = "cm_ts"
            /\ ticks' = ticks + 1
       ELSE /\ pc' = "finally_set"
            /\ ticks' = ticks
    /\ calls' = <<>>
    /\ response' = None
    /\ docker_stats' = None
    /\ UNCHANGED <<answer, objVars, locVars, now, block, known, events, sig_pc, saves,
                   oklog, ret, last_save, exc, hpc>>

(***************************************************************************)
(* collect_metrics                                                         *)
(***************************************************************************)
\* line 128
CmTimestamp ==
    /\ Main /\ pc = "cm_ts"
    /\ timestamp' = now
    /\ pc' = "cm_sys"
    /\ UNCHANGED <<answer, objVars, duration, start_time, metrics, idx,
                   container_stats, envVars, logVars, exc, hpc>>

\* collect_metrics putting the snapshot into the series as soon as it has its
\* host record, before the containers are handled
CmSystem_append_first ==
    /\ Main /\ pc = "cm_sys"
    /\ \E host \in {NominalHost, SpikeHost} :
        /\ host # NominalHost => events < MaxEnvEvents
        /\ events' = IF host # NominalHost THEN events + 1 ELSE events
        /\ now' = now + block
        /\ metrics' = [timestamp  |-> isoformat(timestamp),
                       system     |-> get_system_stats(host, now + block),
                       containers |-> <<>>]
    /\ data' = Append(data, metrics')
    /\ calls' = Append(calls, <<"system">>)
    /\ idx' = 1
    /\ pc' = "cm_fetch"
    /\ UNCHANGED <<answer, interval, running, files, duration, start_time,
                   timestamp, container_stats, block, known, docker_stats,
                   response, sig_pc, saves, ticks, oklog, ret, last_save, exc,
                   hpc>>

\* lines 129-133, with get_system_stats (lines 119-124)
CmSystem ==
    /\ Main /\ pc = "cm_sys"
    /\ \E host \in {NominalHost, SpikeHost} :
        /\ host # NominalHost => events < MaxEnvEvents
        /\ events' = IF host # NominalHost THEN events + 1 ELSE events
        /\ now' = now + block
        /\ metrics' = [timestamp  |-> isoformat(timestamp),
                       system     |-> get_system_stats(host, now + block),
                       containers |-> <<>>]
    /\ calls' = Append(calls, <<"system">>)
    /\ idx' = 1
    /\ pc' = "cm_fetch"
    /\ UNCHANGED <<answer, objVars, duration, start_time, timestamp, container_stats,
                   block, known, docker_stats, response, sig_pc, saves, ticks,
                   oklog, ret, last_save, exc, hpc>>

\* line 131 when psutil raises: the exception leaves collect_metrics and the
\* try block
CmSystemFault ==
    /\ Main /\ pc = "cm_sys"
    /\ events < MaxEnvEvents
    /\ events' = events + 1
    /\ exc' = "Exception"
    /\ pc' = "finally_set"
    /\ UNCHANGED <<answer, objVars, locVars, now, block, known, docker_stats, logVars, hpc>>

\* what the docker client gives for a container: NotFound when the daemon
\* does not know it, else its stats or (a deviation) an error
RawOutcomes(c) ==
    IF c \in known
    THEN {NominalStats, [raised |-> "Error"]}
    ELSE {[raised |-> "NotFound"]}

\* the for loop of collect_metrics calling get_container_stats a second time
\* for a container whose first fetch of the tick gave None
CmFetch_retry ==
    /\ Main /\ pc = "cm_fetch"
    /\ IF idx > Len(containers)
       THEN /\ pc' = "cm_append"
            /\ UNCHANGED <<container_stats, events, docker_stats, calls, idx,
                           metrics, exc>>
       ELSE \E raw \in RawOutcomes(containers[idx]) :
            LET got   == get_container_stats(containers[idx], raw, now)
                tried == /\ calls # <<>>
                         /\ calls[Len(calls)][1] = "fetch"
                         /\ calls[Len(calls)][2] = containers[idx]
            IN
            /\ raw = [raised |-> "Error"] => events < MaxEnvEvents
            /\ events' = IF raw = [raised |-> "Error"] THEN events + 1 ELSE events
            /\ docker_stats' = raw
            /\ calls' = Append(calls, <<"fetch", containers[idx],
                                        IF Raised(raw) THEN raw.raised ELSE "ok">>)
            /\ container_stats' = got
            /\ exc' = exc
            /\ IF Truthy(got)
               THEN pc' = "cm_probe" /\ idx' = idx /\ metrics' = metrics
               ELSE IF tried
               THEN /\ pc' = "cm_fetch" /\ idx' = idx + 1
                    /\ metrics' = record_container(metrics, containers[idx], got, None)
               ELSE pc' = "cm_fetch" /\ idx' = idx /\ metrics' = metrics
    /\ UNCHANGED <<answer, objVars, duration, start_time, timestamp, now, block,
                   known, response, sig_pc, saves, ticks, oklog, ret,
                   last_save, hpc>>

\* lines 135-137 with get_container_stats (lines 50-93): the next container
\* of the for loop, or the end of the loop
CmFetch ==
    /\ Main /\ pc = "cm_fetch"
    /\ IF idx > Len(containers)
       THEN /\ pc' = "cm_append"
            /\ UNCHANGED <<container_stats, events, docker_stats, calls, idx,
                           metrics, exc>>
       ELSE \E raw \in RawOutcomes(containers[idx]) :
            LET got == get_container_stats(containers[idx], raw, now) IN
            /\ raw = [raised |-> "Error"] => events < MaxEnvEvents
            /\ events' = IF raw = [raised |-> "Error"] THEN events + 1 ELSE events
            /\ docker_stats' = raw
            /\ calls' = Append(calls, <<"fetch", containers[idx],
                                        IF Raised(raw) THEN raw.raised ELSE "ok">>)
            /\ IF Raised(got)
               THEN \* an exception get_container_stats lets through
                    /\ exc' = "Exception"
                    /\ pc' = "finally_set"
                    /\ UNCHANGED <<container_stats, idx, metrics>>
               ELSE /\ container_stats' = got
                    /\ exc' = exc
                    /\ metrics' = IF Truthy(got) THEN metrics
                                  ELSE record_container(metrics, containers[idx], got, None)
                    /\ IF Truthy(got)
                       THEN pc' = "cm_probe" /\ idx' = idx
                       ELSE pc' = "cm_fetch" /\ idx' = idx + 1
    /\ UNCHANGED <<answer, objVars, duration, start_time, timestamp, now, block,
                   known, response, sig_pc, saves, ticks, oklog, ret,
                   last_save, hpc>>

\* lines 138-139 with check_container_health (lines 95-110)
CmProbe ==
    /\ Main /\ pc = "cm_probe"
    /\ \E resp \in {HttpOk} \cup BadResponses :
        /\ resp # HttpOk => events < MaxEnvEvents
        /\ events' = IF resp # HttpOk THEN events + 1 ELSE events
        /\ response' = resp
        /\ metrics' = record_container(metrics, containers[idx], container_stats, resp)
    /\ calls' = Append(calls, <<"probe", containers[idx], container_url[containers[idx]]>>)
    /\ idx' = idx + 1
    /\ pc' = "cm_fetch"
    /\ UNCHANGED <<answer, objVars, duration, start_time, timestamp, container_stats,
                   now, block, known, docker_stats, sig_pc, saves, ticks, oklog,
                   ret, last_save, exc, hpc>>

\* collect_metrics putting the snapshot at the front of the series
\* (self.data.insert(0, metrics)) where line 141 appends
CmAppend_prepend ==
    /\ Main /\ pc = "cm_append"
    /\ data' = <<metrics>> \o data
    /\ oklog' = <<OkSet>> \o oklog
    /\ pc' = "cm_log"
    /\ UNCHANGED <<answer, interval, running, files, locVars, envVars, response,
                   sig_pc, saves, ticks, calls, ret, last_save, exc, hpc>>

\* line 141
CmAppend ==
    /\ Main /\ pc = "cm_append"
    /\ data' = Append(data, metrics)
    /\ oklog' = Append(oklog, OkSet)
    /\ pc' = "cm_log"
    /\ UNCHANGED <<answer, interval, running, files, locVars, envVars, response,
                   sig_pc, saves, ticks, calls, ret, last_save, exc, hpc>>

\* lines 142-151: the log lines of the tick, after which collect_metrics
\* returns
CmLog ==
    /\ Main /\ pc = "cm_log"
    /\ pc' = "dur_check"
    /\ UNCHANGED <<answer, objVars, locVars, envVars, logVars, exc, hpc>>

(***************************************************************************)
(* the rest of the loop body, and the finally block                        *)
(***************************************************************************)
\* lines 223-225
DurationCheck ==
    /\ Main /\ pc = "dur_check"
    /\ IF duration_completed(duration, start_time, now)
       THEN pc' = "finally_set"
       ELSE pc' = "sleep"
    /\ UNCHANGED <<answer, objVars, locVars, envVars, logVars, exc, hpc>>

\* line 227
Sleep ==
    /\ Main /\ pc = "sleep"
    /\ now' = now + interval
    /\ pc' = "loop"
    /\ UNCHANGED <<answer, objVars, locVars, block, known, events, docker_stats, logVars,
                   exc, hpc>>

\* line 232
FinallySet ==
    /\ Main /\ pc = "finally_set"
    /\ running' = FALSE
    /\ pc' = "finally_save"
    /\ UNCHANGED <<answer, interval, data, files, locVars, envVars, logVars, exc, hpc>>

\* save_data called after the loop only (no finally clause): an exception
\* that leaves the try block leaves start_monitoring without a save
FinallySave_skip_on_fault ==
    /\ Main /\ pc = "finally_save"
    /\ IF exc = "none"
       THEN save_data
       ELSE UNCHANGED <<files, ret, saves, last_save>>
    /\ pc' = IF exc = "none" THEN "done" ELSE "exited"
    /\ UNCHANGED <<answer, interval, running, data, locVars, envVars, response,
                   sig_pc, ticks, calls, oklog, exc, hpc>>

\* line 233, then the pending exception (if any) leaves start_monitoring
FinallySave ==
    /\ Main /\ pc = "finally_save"
    /\ save_data
    /\ pc' = IF exc = "none" THEN "done" ELSE "exited"
    /\ UNCHANGED <<answer, interval, running, data, locVars, envVars, response,
                   sig_pc, ticks, calls, oklog, exc, hpc>>

(***************************************************************************)
(* the queries.  Nothing in the module calls them; with one thread of      *)
(* control a caller can do so before start_monitoring is called or after   *)
(* it has returned.  Start drops the answer of an earlier query.           *)
(***************************************************************************)
\* get_latest_data taking the last snapshot out of the series
\* (self.data.pop()) where line 237 reads it
GetLatestData_pop ==
    /\ Main /\ pc \in {"idle", "done"}
    /\ answer' = [call |-> "get_latest_data", value |-> get_latest_data(data)]
    /\ data' = IF data = <<>> THEN data ELSE SubSeq(data, 1, Len(data) - 1)
    /\ UNCHANGED <<interval, running, files, locVars, envVars, logVars, pc, exc, hpc>>

\* lines 235-237
GetLatestData ==
    /\ Main /\ pc \in {"idle", "done"}
    /\ answer' = [call |-> "get_latest_data", value |-> get_latest_data(data)]
    /\ UNCHANGED <<objVars, locVars, envVars, logVars, pc, exc, hpc>>

\* lines 239-266
GetDataframe ==
    /\ Main /\ pc \in {"idle", "done"}
    /\ answer' = [call |-> "get_dataframe", value |-> get_dataframe(data)]
    /\ UNCHANGED <<objVars, locVars, envVars, logVars, pc, exc, hpc>>

(***************************************************************************)
(* signal_handler, registered for SIGINT and SIGTERM in __init__           *)
(***************************************************************************)
\* lines 40-41: a termination signal is delivered; the handler runs before
\* the main control flow takes another step.  One signal per run.
Signal ==
    /\ Main /\ pc \notin {"done", "exited"}
    /\ sig_pc = "none"
    /\ sig_pc' = pc
    /\ hpc' = "h_set"
    /\ UNCHANGED <<answer, objVars, locVars, envVars, response, saves, ticks, calls,
                   oklog, ret, last_save, pc, exc>>

\* line 46
HandlerSet ==
    /\ hpc = "h_set"
    /\ running' = FALSE
    /\ hpc' = "h_save"
    /\ UNCHANGED <<answer, interval, data, files, locVars, envVars, logVars, pc, exc>>

\* line 47
HandlerSave ==
    /\ hpc = "h_save"
    /\ save_data
    /\ hpc' = "h_exit"
    /\ UNCHANGED <<answer, interval, running, data, locVars, envVars, response,
                   sig_pc, ticks, calls, oklog, pc, exc>>

\* signal_handler returning to the interrupted code (no sys.exit): the main
\* control flow goes on from where it stood
HandlerExit_return ==
    /\ hpc = "h_exit"
    /\ hpc' = "none"
    /\ UNCHANGED <<answer, objVars, locVars, envVars, logVars, pc, exc>>

\* line 48: sys.exit(0) raises SystemExit where the main control flow stood.
\* No except clause of the module catches it (they name Exception and
\* KeyboardInterrupt); inside the try block the finally clause runs.
HandlerExit ==
    /\ hpc = "h_exit"
    /\ hpc' = "none"
    /\ exc' = "SystemExit"
    /\ pc' = IF pc \in TryPcs THEN "finally_set" ELSE "exited"
    /\ UNCHANGED <<answer, objVars, locVars, envVars, logVars>>

Next ==
    \/ Start
    \/ EnterTry
    \/ LoopTest
    \/ CmTimestamp
    \/ CmSystem
    \/ CmSystemFault
    \/ CmFetch
    \/ CmProbe
    \/ CmAppend
    \/ CmLog
    \/ DurationCheck
    \/ Sleep
    \/ FinallySet
    \/ FinallySave
    \/ GetLatestData
    \/ GetDataframe
    \/ Signal
    \/ HandlerSet
    \/ HandlerSave
    \/ HandlerExit

Spec == Init /\ [][Next]_vars

(***************************************************************************)
(* get_container_stats on its own: one call, for counter readings drawn    *)
(* from CounterStats                                                       *)
(***************************************************************************)
InitCpu ==
    /\ interval = DefaultInterval
    /\ running = FALSE
    /\ data = <<>>
    /\ files = <<>>
    /\ duration = None
    /\ start_time = 0
    /\ pc = "stats_call"
    /\ exc = "none"
    /\ timestamp = 0
    /\ metrics = None
    /\ idx = 1
    /\ container_stats = None
    /\ hpc = "none"
    /\ ret = None
    /\ now = 0
    /\ block = 0
    /\ known = {containers[1]}
    /\ docker_stats \in CounterStats
    /\ response = None
    /\ events = 0
    /\ sig_pc = "none"
    /\ saves = 0
    /\ ticks = 0
    /\ calls = <<>>
    /\ oklog = <<>>
    /\ last_save = None
    /\ answer = None

\* lines 60-87: get_container_stats(containers[idx]) for the reading in
\* docker_stats
StatsCall ==
    /\ pc = "stats_call"
    /\ container_stats' = get_container_stats(containers[idx], docker_stats, now)
    /\ pc' = "stats_done"
    /\ UNCHANGED <<answer, objVars, duration, start_time, timestamp, metrics, idx,
                   envVars, logVars, exc, hpc>>

SpecCpu == InitCpu /\ [][StatsCall]_vars

(***************************************************************************)
(* Properties                                                              *)
(***************************************************************************)
AllContainers == {containers[i] : i \in 1..Len(containers)}

\* the fetch calls of this tick, in order
FetchCalls == SelectSeq(calls, LAMBDA c : c[1] = "fetch")

\* the run saw no signal and no fault
Undisturbed == sig_pc = "none" /\ exc = "none"

\* C1: a termination signal delivered inside a tick or during the sleep
\* leads to exactly one save_data invocation in total before the process
\* exits.
C1_OneFlushOnSignal ==
    (pc = "exited" /\ sig_pc \in TickPcs \cup {"sleep"}) => saves = 1

\* C2 as stated: interval 10, duration 30, ticks that take no time, no
\* signal: start_monitoring returns after exactly 3 ticks and one save_data.
C2_ThreeTicks ==
    (pc = "done" /\ Undisturbed /\ interval = 10 /\ duration = IntVal(30)
        /\ block = 0)
    => (ticks = 3 /\ saves = 1)

\* C2 as amended: with interval 10, duration 30, ticks that take no time and
\* no signal, the loop sleeps after each of the first 3 ticks (elapsed 0, 10,
\* 20), ends right after the 4th (elapsed 30), and save_data is invoked
\* exactly once: 4 snapshots.
C2_FourTicks ==
    (Undisturbed /\ interval = 10 /\ duration = IntVal(30) /\ block = 0)
    => /\ pc = "done" => (ticks = 4 /\ Len(data) = 4 /\ saves = 1)
       /\ pc = "sleep" => ticks < 4
       /\ pc \in {"finally_set", "finally_save"} => ticks = 4
       /\ ticks <= 4

C2_Witness ==
    /\ pc = "done" /\ Undisturbed
    /\ interval = 10 /\ duration = IntVal(30) /\ block = 0
    /\ ticks = 4 /\ saves = 1
    /\ now = 30

\* C3: every snapshot of the series has an entry for a target exactly when
\* the fetch of that target gave stats in the tick of the snapshot, and has
\* its one host record under 'system'.
C3_PresentIffFetched ==
    /\ Len(oklog) = Len(data)
    /\ \A i \in 1..Len(data) :
        /\ DOMAIN data[i] = {"timestamp", "system", "containers"}
        /\ DOMAIN data[i].containers = oklog[i]
        /\ \A c \in DOMAIN data[i].containers : Truthy(data[i].containers[c])
        /\ DOMAIN data[i].system =
              {"system_cpu_percent", "system_memory_percent",
               "system_memory_available_gb", "timestamp"}

C3_Witness ==
    \E i \in 1..Len(data) :
        /\ Cardinality(DOMAIN data[i].containers) = 2
        /\ oklog[i] # AllContainers
        /\ known = AllContainers

\* C4: a failed fetch of a target, NotFound or any other error, never leaves
\* collect_metrics: the tick goes on to the remaining targets, in order,
\* appends its one snapshot and leaves the loop running.  The only
\* exception that leaves a tick comes from the host fetch, before any target.
C4_FailuresNotSurfaced ==
    /\ exc = "Exception" => calls = <<>>
    /\ pc \in TickPcs => Len(data) = ticks - 1
    /\ pc \in {"cm_fetch", "cm_probe"} =>
          /\ Len(FetchCalls) = (IF pc = "cm_probe" THEN idx ELSE idx - 1)
          /\ \A k \in 1..Len(FetchCalls) : FetchCalls[k][2] = containers[k]
    /\ pc = "dur_check" =>
          /\ Len(data) = ticks
          /\ sig_pc = "none" => running
          /\ Len(FetchCalls) = Len(containers)
          /\ \A k \in 1..Len(containers) : FetchCalls[k][2] = containers[k]

C4_Witness ==
    /\ pc = "dur_check" /\ Undisturbed
    /\ OkSet = {}
    /\ \E k \in 1..Len(FetchCalls) : FetchCalls[k][3] = "Error"
    /\ \E k \in 1..Len(FetchCalls) : FetchCalls[k][3] = "NotFound"
    /\ Len(data) = 2

\* the (snapshot, target) pairs of a series, in series order and, within a
\* snapshot, in the order of the containers
RECURSIVE ExpectedPairs(_, _)
ExpectedPairs(series, i) ==
    IF i > Len(series) THEN <<>>
    ELSE LET cs == SelectSeq(containers, LAMBDA c : c \in DOMAIN series[i].containers)
         IN  [k \in 1..Len(cs) |-> <<i, cs[k]>>] \o ExpectedPairs(series, i + 1)

RECURSIVE SumPresent(_)
SumPresent(series) ==
    IF series = <<>> THEN 0
    ELSE Cardinality(DOMAIN Head(series).containers) + SumPresent(Tail(series))

HostFieldsMatch(row, entry) ==
    /\ row.system_cpu_percent = entry.system.system_cpu_percent
    /\ row.system_memory_percent = entry.system.system_memory_percent
    /\ row.system_memory_available_gb = entry.system.system_memory_available_gb

\* C5: flattening a series gives one row per (snapshot, present target)
\* pair, in series order, sum of k_i rows in all, each with the timestamp
\* and the host values of its snapshot; so for save_data (the timestamp
\* string itself) and for get_dataframe (the timestamp parsed to a time,
\* which written out again is the snapshot's string), and so for the rows
\* that save_data wrote.
C5_FlattenRows ==
    LET pairs == ExpectedPairs(data, 1)
        rows  == flattened_data(data)
        frame == get_dataframe(data)
    IN  /\ Len(rows) = SumPresent(data)
        /\ Len(frame) = SumPresent(data)
        /\ Len(pairs) = SumPresent(data)
        /\ \A j \in 1..Len(pairs) :
            LET entry == data[pairs[j][1]] IN
            /\ rows[j].container_name = pairs[j][2]
            /\ rows[j].timestamp = entry.timestamp
            /\ HostFieldsMatch(rows[j], entry)
            /\ frame[j].container_name = pairs[j][2]
            /\ isoformat(frame[j].timestamp) = entry.timestamp
            /\ HostFieldsMatch(frame[j], entry)
        /\ (last_save # None /\ last_save.rows # <<>>) =>
            /\ files[csv_path_of(last_save.filename)] = last_save.rows
            /\ Len(last_save.rows) = SumPresent(last_save.series)

C5_Witness ==
    /\ Len(data) = 2
    /\ \A i \in 1..2 : DOMAIN data[i].containers = {"node-nextjs-app"}
    /\ data[1].timestamp # data[2].timestamp
    /\ last_save # None
    /\ last_save.series = data
    /\ Len(last_save.rows) = 2
    /\ \A j \in 1..2 : last_save.rows[j].container_name = "node-nextjs-app"

\* C6: a save_data call on an empty series writes no file, returns None and
\* leaves the series and the running flag as they were.
C6_EmptyFlush ==
    [][(saves' = saves + 1 /\ data = <<>>)
        => (files' = files /\ ret' = None /\ data' = data /\ running' = running)]_vars

C6_Witness ==
    /\ saves > 0
    /\ last_save # None
    /\ last_save.series = <<>>
    /\ files = <<>>
    /\ ret = None
    /\ data = <<>>

\* C7 as stated: every save_data call on a non-empty series produces the
\* tabular file, also when no row was flattened.
C7_TabularAlways ==
    (last_save # None /\ last_save.series # <<>>)
    => csv_path_of(last_save.filename) \in DOMAIN files

\* C7 as amended: every save_data call on a non-empty series produces the
\* structured file; it produces the tabular file exactly when flattening
\* gave at least one row, and with zero rows no tabular file is written.
C7_TabularIffRows ==
    (last_save # None /\ last_save.series # <<>>)
    => /\ json_path_of(last_save.filename) \in DOMAIN files
       /\ csv_path_of(last_save.filename) \in DOMAIN files
            <=> last_save.rows # <<>>

C7_Witness ==
    /\ last_save # None
    /\ last_save.series # <<>>
    /\ last_save.rows = <<>>
    /\ json_path_of(last_save.filename) \in DOMAIN files
    /\ csv_path_of(last_save.filename) \notin DOMAIN files

\* C8: after every save_data call on a non-empty series the structured file
\* holds the entire series, the returned structured path is that file's and
\* not None, and the returned tabular path is None exactly when flattening
\* gave zero rows.
C8_ReturnedPaths ==
    (last_save # None /\ last_save.series # <<>>)
    => /\ json_path_of(last_save.filename) \in DOMAIN files
       /\ files[json_path_of(last_save.filename)] = last_save.series
       /\ ret # None
       /\ ret[2] = json_path_of(last_save.filename)
       /\ ret[2] # None
       /\ ret[1] = None <=> last_save.rows = <<>>
       /\ ret[1] # None => ret[1] = csv_path_of(last_save.filename)

C8_Witness ==
    /\ last_save # None
    /\ Len(last_save.series) >= 2
    /\ last_save.series = data
    /\ ret # None
    /\ ret[1] # None
    /\ ret[2] \in DOMAIN files

\* the last call of this tick was the probe of a target
JustProbed == Len(calls) > 0 /\ calls[Len(calls)][1] = "probe"
ProbedName == calls[Len(calls)][2]

\* a 2xx status
IsSuccess(resp) == ~Raised(resp) /\ resp.status \in 200..299

\* C9 as stated: the probed target's record is in the snapshot, with healthy
\* true exactly when the GET returned a success status, whichever.
C9_AnySuccessHealthy ==
    JustProbed =>
        /\ ProbedName \in DOMAIN metrics.containers
        /\ metrics.containers[ProbedName].healthy = IsSuccess(response)

\* C9 as amended: check_container_health gives true exactly when the GET
\* returned status 200; every exception and every other status, other
\* success codes included, gives false; it never raises, so the record of
\* the target is in the snapshot with its healthy field either way.
C9_Only200Healthy ==
    JustProbed =>
        /\ ProbedName \in DOMAIN metrics.containers
        /\ metrics.containers[ProbedName].healthy
              = (~Raised(response) /\ response.status = 200)
        /\ exc # "Exception"

C9_Witness ==
    /\ JustProbed
    /\ response = [status |-> 204]
    /\ metrics.containers[ProbedName].healthy = FALSE
    /\ pc = "dur_check"
    /\ data[Len(data)].containers[ProbedName].healthy = FALSE

\* C10: with a duration supplied, 0 included, the loop never sleeps after a
\* tick at whose end elapsed >= duration.
C10_NoSleepOnceElapsed ==
    (duration # None /\ pc = "sleep") => (now - start_time) < duration.int

(***************************************************************************)
(* Claims about cpu_percent (specification SpecCpu)                        *)
(***************************************************************************)
cpu_delta == docker_stats.cpu_total - docker_stats.precpu_total
system_delta == docker_stats.system_cpu - docker_stats.presystem_cpu
StatsReturned == pc = "stats_done"

\* C11: when system_delta is zero or negative, get_container_stats returns
\* its record (no exception, no None) and the record's cpu_percent is
\* exactly 0, whatever cpu_delta is
C11_ZeroWhenNoSystemDelta ==
    (StatsReturned /\ system_delta <= 0) =>
        /\ container_stats # None
        /\ container_stats.cpu_percent = 0

\* a call has returned for a negative system_delta and a non-zero cpu_delta
C11_Witness ==
    /\ StatsReturned /\ system_delta < 0 /\ cpu_delta # 0
    /\ container_stats.cpu_percent = 0

\* C12: when system_delta is positive, cpu_percent is
\* (cpu_delta / system_delta) * cores * 100 rounded to two decimals, i.e. the
\* nearest hundredth of the exact quotient (the even one when half way), and
\* it is not negative when cpu_delta is not
C12_RoundedRatio ==
    (StatsReturned /\ system_delta > 0) =>
        LET h     == container_stats.cpu_percent
            exact == cpu_delta * docker_stats.percpu_len * 10000
            err   == h * system_delta - exact
            dist  == IF err < 0 THEN 0 - err ELSE err
        IN  /\ 2 * dist <= system_delta
            /\ 2 * dist = system_delta => h % 2 = 0
            /\ cpu_delta >= 0 => h >= 0

\* a call has returned a value that needed rounding, for more than one core:
\* 3 / 35 * 2 * 100 = 17.142857... gives 17.14
C12_Witness ==
    /\ StatsReturned /\ system_delta = 35 /\ cpu_delta = 3
    /\ docker_stats.percpu_len = 2
    /\ container_stats.cpu_percent = 1714

(***************************************************************************)
(* Claims about the series and the exit paths (specification Spec)         *)
(***************************************************************************)
\* the time a snapshot of the series carries
TimeOf(entry) == to_datetime(entry.timestamp)

\* C13: the timestamps of the snapshots of the series are non-decreasing in
\* series order
C13_TimestampsNonDecreasing ==
    \A i \in 1..(Len(data) - 1) : TimeOf(data[i]) <= TimeOf(data[i + 1])

\* three snapshots are in the series, taken at three different times
C13_Witness ==
    /\ Len(data) = 3
    /\ TimeOf(data[1]) < TimeOf(data[2])
    /\ TimeOf(data[2]) < TimeOf(data[3])

\* a signal has been delivered to the process
Signalled == sig_pc # "none"

\* the signal came inside collect_metrics, its log lines included
InterruptedTick == sig_pc \in TickPcs \cup {"cm_log"}

\* from the delivery of the signal on, no tick starts and nothing is
\* appended to the series
NoTickAfterSignal == [][Signalled => (data' = data /\ ticks' = ticks)]_vars

\* C14 as stated: once the signal is handled no further tick happens and no
\* snapshot is appended, and a tick interrupted by the signal, at whatever
\* point, has contributed no snapshot
C14_InterruptedTickNoSnapshot ==
    /\ NoTickAfterSignal
    /\ [](InterruptedTick => Len(data) = ticks - 1)

\* C14: once the signal is handled no further tick happens and no snapshot
\* is appended; a tick interrupted before its append (line 141) contributes
\* no snapshot, and a tick interrupted after it, in its log lines, has
\* contributed its snapshot
C14_NoAppendAfterSignal ==
    /\ NoTickAfterSignal
    /\ [](sig_pc \in TickPcs => Len(data) = ticks - 1)
    /\ [](sig_pc = "cm_log" => Len(data) = ticks)

\* the process has exited on a signal that came during the probe of the
\* second tick: the series holds the first tick's snapshot only
C14_Witness ==
    /\ pc = "exited" /\ sig_pc = "cm_probe"
    /\ ticks = 2 /\ Len(data) = 1

\* the calls of this tick are in the order of lines 131-139: the host fetch
\* first and once, then each container's fetch once and in the order of
\* self.containers, each successful fetch followed directly by the probe of
\* the same container's URL, no probe anywhere else
CallsInOrder ==
    /\ \A k \in 1..Len(calls) : (calls[k] = <<"system">>) <=> (k = 1)
    /\ Len(FetchCalls) <= Len(containers)
    /\ \A k \in 1..Len(FetchCalls) : FetchCalls[k][2] = containers[k]
    /\ \A k \in 1..Len(calls) :
          calls[k][1] = "probe" =>
              /\ k > 1
              /\ calls[k - 1] = <<"fetch", calls[k][2], "ok">>
              /\ calls[k][3] = container_url[calls[k][2]]
    /\ \A k \in 1..Len(calls) :
          (calls[k][1] = "fetch" /\ calls[k][3] = "ok") =>
              IF k < Len(calls)
              THEN calls[k + 1][1] = "probe"
              ELSE pc = "cm_probe" \/ sig_pc = "cm_probe"

\* every container has been handled: fetched, and probed if fetched well
AllHandled ==
    /\ Len(FetchCalls) = Len(containers)
    /\ calls[Len(calls)][1] = "fetch" => calls[Len(calls)][3] # "ok"

\* C15: within every tick the host fetch is called once and first, then for
\* each container in turn the fetch once (no retry) and, after it, the probe
\* once if and only if the fetch returned a record; the snapshot is appended
\* only after all containers are handled
C15_CallOrder ==
    /\ CallsInOrder
    /\ (ticks > 0 /\ Len(data) = ticks) => AllHandled

\* a tick has appended its snapshot after a fetch that failed with an error
\* (not retried, not probed), between two fetches that were probed
C15_Witness ==
    /\ pc = "cm_log" /\ Len(data) = ticks
    /\ calls = << <<"system">>,
                  <<"fetch", "node-nextjs-app", "ok">>,
                  <<"probe", "node-nextjs-app", "http://localhost:3001">>,
                  <<"fetch", "deno-nextjs-app", "Error">>,
                  <<"fetch", "bun-nextjs-app", "ok">>,
                  <<"probe", "bun-nextjs-app", "http://localhost:3003">> >>

\* one step leaves the series as it is, or is the append of line 141, which
\* puts the tick's snapshot after the entries that are there
SeriesStep ==
    \/ data' = data
    \/ /\ pc = "cm_append" /\ pc' = "cm_log"
       /\ Len(data') = Len(data) + 1
       /\ SubSeq(data', 1, Len(data)) = data
       /\ data'[Len(data')] = metrics

\* a save_data, get_latest_data or get_dataframe call has been made
ReadStep == saves' # saves \/ answer' # answer

\* C16: the series is append-only: a completed tick has extended it by its
\* one snapshot, at the end, and save_data (from the finally clause or from
\* the handler, on an empty or non-empty series), get_latest_data and
\* get_dataframe leave it unchanged
C16_AppendOnly ==
    /\ [][SeriesStep]_vars
    /\ [][ReadStep => data' = data]_vars
    /\ [](pc \in {"cm_log", "dur_check", "sleep", "done"} => Len(data) = ticks)

\* after a run of two ticks or more that has saved its series, a query has
\* been answered from the series
C16_Witness ==
    /\ pc = "done" /\ Len(data) >= 2 /\ saves = 1
    /\ last_save.series = data
    /\ answer = [call |-> "get_dataframe", value |-> get_dataframe(data)]

\* start_monitoring has been left: it returned, or an exception left it
Left == pc \in {"done", "exited"}

\* the ticks that ran to their end: all of them, but for the one an
\* exception left
CompletedTicks == IF exc = "none" THEN ticks ELSE ticks - 1

\* C17: when the loop is left with no signal involved, by the duration check
\* or by an exception raised inside a tick, start_monitoring first sets
\* running to false, then calls save_data exactly once, on a series that
\* holds the snapshot of every completed tick; no tick follows that save
C17_OneFlushWithoutSignal ==
    /\ [](~Signalled =>
            /\ pc = "finally_save" => (~running /\ saves = 0)
            /\ saves <= 1
            /\ saves = 1 => Left
            /\ Left =>
                  /\ ~running /\ saves = 1
                  /\ last_save.series = data
                  /\ Len(data) = CompletedTicks)
    /\ [][(~Signalled /\ saves >= 1) => (ticks' = ticks /\ data' = data)]_vars

\* an exception of the host fetch has left the third tick and
\* start_monitoring, with no signal: the two snapshots have been saved
C17_Witness ==
    /\ pc = "exited" /\ exc = "Exception" /\ ~Signalled
    /\ ticks = 3 /\ Len(data) = 2
    /\ saves = 1 /\ last_save.series = data /\ ~running

\* a snapshot is whole: its timestamp, its host record with all its fields,
\* and per container a record that has its healthy field
WholeSnapshot(entry) ==
    /\ DOMAIN entry = {"timestamp", "system", "containers"}
    /\ DOMAIN entry.system = {"system_cpu_percent", "system_memory_percent",
                              "system_memory_available_gb", "timestamp"}
    /\ \A c \in DOMAIN entry.containers :
          /\ c \in AllContainers
          /\ "healthy" \in DOMAIN entry.containers[c]
          /\ entry.containers[c].healthy \in BOOLEAN

\* C18: whatever the point of a tick the signal arrives at, every save_data
\* call sees whole snapshots only, and the tick that was interrupted before
\* its append is not in what it sees
C18_FlushSeesWholeSnapshots ==
    last_save # None =>
        /\ \A i \in 1..Len(last_save.series) : WholeSnapshot(last_save.series[i])
        /\ sig_pc \in TickPcs => Len(last_save.series) = ticks - 1
        /\ sig_pc \in {"cm_fetch", "cm_probe", "cm_append"} =>
              \A i \in 1..Len(last_save.series) :
                  TimeOf(last_save.series[i]) < to_datetime(metrics.timestamp)

\* the handler has saved after a signal that came during the probe of the
\* second container of the second tick: the tick's snapshot, with one
\* container in it so far, is not in the series that was saved
C18_Witness ==
    /\ hpc = "h_exit" /\ sig_pc = "cm_probe" /\ idx = 2 /\ ticks = 2
    /\ DOMAIN metrics.containers = {"node-nextjs-app"}
    /\ Len(last_save.series) = 1
    /\ last_save.series[1].timestamp # metrics.timestamp

\* the path of the structured file of the last save_data call
LastJsonPath == json_path_of(last_save.filename)

\* C19: when start_monitoring has been left, by the duration check, a signal
\* or an exception, after at least one completed tick, the structured file
\* of the last save_data call holds the series: every snapshot that was
\* appended, in append order, each once
C19_NoDataLost ==
    (Left /\ Len(data) >= 1) =>
        /\ last_save # None
        /\ last_save.series = data
        /\ LastJsonPath \in DOMAIN files
        /\ files[LastJsonPath] = data

\* the process has exited on a signal that came during the sleep after the
\* second tick; the handler and the finally clause have both saved
C19_Witness ==
    /\ pc = "exited" /\ sig_pc = "sleep" /\ saves = 2
    /\ Len(data) = 2
    /\ files[LastJsonPath] = data
====
